---- MODULE Spec2Model ----
(***************************************************************************)
(* A model of option_strategy_plotter_v2.py: the Option and Stock legs,    *)
(* the Save / Load / Add / Remove handlers of the Streamlit script acting  *)
(* on st.session_state, and plot_strategy.                                 *)
(*                                                                         *)
(* Numbers.  A Python float held by a leg is written as the decimal it     *)
(* prints as, in tenths (1005 is 100.5).  Where the script does arithmetic *)
(* on floats (payoff, plot_strategy) the decimal is converted to the       *)
(* binary64 value it denotes and the arithmetic is IEEE-754 binary64 with  *)
(* round-to-nearest-even, see the section "binary64".                      *)
(***************************************************************************)
EXTENDS Integers, Sequences, FiniteSets, TLC

VARIABLES
    options,   \* st.session_state["options"]: list of Option
    stocks,    \* st.session_state["stocks"]: list of Stock
    disk,      \* the CSV file strategy_file names: [exists, rows]
    lastOp,    \* the button of the last rerun: "init", "file", "save", "load", "add_option", "add_stock", "remove"
    lastIdx,   \* remove_idx of the last Remove: <<>> for None, <<i>> for index i
    err,       \* the exception the last handler raised, "none" if it raised none
    plot,      \* the last plot_strategy call: [op, s_min, s_max, S, net]
    pay        \* the last payoff call: [op, leg, r, i, S, result], S the price at grid index i of range r

vars == <<options, stocks, disk, lastOp, lastIdx, err, plot, pay>>

---------------------------------------------------------------------------
(* Bounds of the model. *)

\* the Add buttons are disabled in the model once the portfolio holds MaxLegs legs
MaxLegs == 2

\* the same for the portfolios whose curve is plotted
MaxPlotLegs == 3

\* the number of grid points of plot_strategy
Resolution == 1001

---------------------------------------------------------------------------
(* Python values and CSV field texts. *)

\* The text of one CSV field: a word, a decimal numeral "-ip.fp", an
\* integer numeral "-ip", or nothing between the commas.
Word(w) == [k |-> "word", w |-> w, neg |-> FALSE, ip |-> 0, fp |-> 0]
Dec(neg, ip, fp) == [k |-> "dec", w |-> "", neg |-> neg, ip |-> ip, fp |-> fp]
IntTxt(neg, ip) == [k |-> "int", w |-> "", neg |-> neg, ip |-> ip, fp |-> 0]
Empty == [k |-> "empty", w |-> "", neg |-> FALSE, ip |-> 0, fp |-> 0]

\* A Python value: a str (its text), a float (in tenths), an int, or nan.
Str(txt) == [t |-> "str", n |-> 0, txt |-> txt]
Float(n) == [t |-> "float", n |-> n, txt |-> Empty]
Int_(n) == [t |-> "int", n |-> n, txt |-> Empty]
NaN == [t |-> "nan", n |-> 0, txt |-> Empty]

S_(w) == Str(Word(w))

Abs(n) == IF n < 0 THEN -n ELSE n

\* the numeral a text field holds, in tenths
ParseNumeral(txt) ==
    LET mag == IF txt.k = "dec" THEN txt.ip * 10 + txt.fp ELSE txt.ip * 10
    IN IF txt.neg THEN -mag ELSE mag

IsNumeral(txt) == txt.k \in {"dec", "int"}

\* float(x), as Option.__init__ and Stock.__init__ call it: [ok, v]
float(x) ==
    CASE x.t = "float" -> [ok |-> TRUE, v |-> x]
      [] x.t = "int" -> [ok |-> TRUE, v |-> Float(x.n)]
      [] x.t = "nan" -> [ok |-> TRUE, v |-> NaN]
      [] x.t = "str" ->
            IF IsNumeral(x.txt)
            THEN [ok |-> TRUE, v |-> Float(ParseNumeral(x.txt))]
            ELSE [ok |-> FALSE, v |-> NaN]   \* ValueError

---------------------------------------------------------------------------
(* The legs. *)

\* Option.__init__: [ok, leg]; not ok when float() raises ValueError
Option(position, option_type, strike, premium) ==
    LET k == float(strike)
        p == float(premium)
    IN [ok |-> k.ok /\ p.ok,
        leg |-> [position |-> position, option_type |-> option_type,
                 strike |-> k.v, premium |-> p.v]]

\* Stock.__init__: [ok, leg]
Stock(position, entry_price) ==
    LET e == float(entry_price)
    IN [ok |-> e.ok,
        leg |-> [position |-> position, entry_price |-> e.v]]

---------------------------------------------------------------------------
(* pandas: DataFrame(data, columns), to_csv, read_csv. *)

Columns == {"type", "position", "option_type", "strike_or_entry", "premium"}

\* the dtype pandas gives a column built from Python values
ColumnDtype(data, c) ==
    IF \E i \in DOMAIN data : data[i][c].t = "str" THEN "object"
    ELSE IF \E i \in DOMAIN data : data[i][c].t \in {"float", "nan"} THEN "float64"
    ELSE "int64"

Coerce(v, dtype) ==
    IF dtype = "float64" /\ v.t = "int" THEN Float(v.n) ELSE v

DataFrame(data) ==
    [i \in DOMAIN data |->
        [c \in Columns |-> Coerce(data[i][c], ColumnDtype(data, c))]]

\* CellText writing a float without its fractional digit (a "%d" float_format)
CellTextNoFraction(v) ==
    CASE v.t = "str" -> v.txt
      [] v.t = "float" -> IntTxt(v.n < 0, Abs(v.n) \div 10)
      [] v.t = "int" -> IntTxt(v.n < 0, Abs(v.n) \div 10)
      [] v.t = "nan" -> Empty

\* how to_csv writes one value
CellText(v) ==
    CASE v.t = "str" -> v.txt
      [] v.t = "float" -> Dec(v.n < 0, Abs(v.n) \div 10, Abs(v.n) % 10)
      [] v.t = "int" -> IntTxt(v.n < 0, Abs(v.n) \div 10)
      [] v.t = "nan" -> Empty

to_csv(df) ==
    [exists |-> TRUE,
     rows |-> [i \in DOMAIN df |-> [c \in Columns |-> CellText(df[i][c])]]]

\* the dtype read_csv infers for a column of field texts
InferDtype(rows, c) ==
    IF \E i \in DOMAIN rows : rows[i][c].k = "word" THEN "object"
    ELSE IF \E i \in DOMAIN rows : rows[i][c].k \in {"dec", "empty"} THEN "float64"
    ELSE "int64"

ParseCell(txt, dtype) ==
    IF txt.k = "empty" THEN NaN
    ELSE IF dtype = "object" THEN Str(txt)
    ELSE IF dtype = "float64" THEN Float(ParseNumeral(txt))
    ELSE Int_(ParseNumeral(txt))

\* read_csv of a readable file: the rows as Python values
read_csv(file) ==
    [i \in DOMAIN file.rows |->
        [c \in Columns |-> ParseCell(file.rows[i][c], InferDtype(file.rows, c))]]

---------------------------------------------------------------------------
(* binary64.  A float is [neg, mag]: the sign and the magnitude in units  *)
(* of 2^-56, an 80-bit natural written as five limbs of 16 bits, lowest    *)
(* first.  Every float of the model is a multiple of 2^-56 below 2^24, and *)
(* so is every sum and difference of two of them; the result of an         *)
(* operation is the exact result rounded to 53 significant bits, ties to   *)
(* even, as IEEE-754 binary64 rounds.                                      *)

Base == 2^16
Limbs == 1..5
BigZero == <<0, 0, 0, 0, 0>>
BigOne == <<1, 0, 0, 0, 0>>
Limb(a, i) == IF i \in Limbs THEN a[i] ELSE 0

\* a + b
BigAdd(a, b) ==
    LET s1 == a[1] + b[1]
        s2 == a[2] + b[2] + s1 \div Base
        s3 == a[3] + b[3] + s2 \div Base
        s4 == a[4] + b[4] + s3 \div Base
        s5 == a[5] + b[5] + s4 \div Base
    IN <<s1 % Base, s2 % Base, s3 % Base, s4 % Base, s5 % Base>>

\* a - b, for a >= b
BigSub(a, b) ==
    LET s1 == a[1] - b[1]
        s2 == a[2] - b[2] + s1 \div Base
        s3 == a[3] - b[3] + s2 \div Base
        s4 == a[4] - b[4] + s3 \div Base
        s5 == a[5] - b[5] + s4 \div Base
    IN <<s1 % Base, s2 % Base, s3 % Base, s4 % Base, s5 % Base>>

RECURSIVE LessFrom(_, _, _)
LessFrom(a, b, i) ==
    IF i = 0 THEN FALSE
    ELSE IF a[i] # b[i] THEN a[i] < b[i]
    ELSE LessFrom(a, b, i - 1)

\* a < b
BigLess(a, b) == LessFrom(a, b, 5)

\* a \div 2^d
BigShr(a, d) ==
    LET ld == d \div 16
        lo == 2^(d % 16)
        hi == 2^(16 - (d % 16))
        limb(i) == (Limb(a, i + ld) \div lo + (Limb(a, i + ld + 1) % lo) * hi) % Base
    IN <<limb(1), limb(2), limb(3), limb(4), limb(5)>>

\* a * 2^d
BigShl(a, d) ==
    LET ld == d \div 16
        lo == 2^(d % 16)
        hi == 2^(16 - (d % 16))
        limb(i) == ((Limb(a, i - ld) % hi) * lo + Limb(a, i - ld - 1) \div hi) % Base
    IN <<limb(1), limb(2), limb(3), limb(4), limb(5)>>

Pow2(k) == BigShl(BigOne, k)

\* a * m, for 0 <= m < 2^15
BigMulSmall(a, m) ==
    LET s1 == a[1] * m
        s2 == a[2] * m + s1 \div Base
        s3 == a[3] * m + s2 \div Base
        s4 == a[4] * m + s3 \div Base
        s5 == a[5] * m + s4 \div Base
    IN <<s1 % Base, s2 % Base, s3 % Base, s4 % Base, s5 % Base>>

\* [q, r] with a = q * m + r and 0 <= r < m, for 0 < m < 2^15
BigDivMod(a, m) ==
    LET n5 == a[5]
        n4 == (n5 % m) * Base + a[4]
        n3 == (n4 % m) * Base + a[3]
        n2 == (n3 % m) * Base + a[2]
        n1 == (n2 % m) * Base + a[1]
    IN [q |-> <<n1 \div m, n2 \div m, n3 \div m, n4 \div m, n5 \div m>>, r |-> n1 % m]

RECURSIVE SmallBitLen(_)
SmallBitLen(v) == IF v = 0 THEN 0 ELSE 1 + SmallBitLen(v \div 2)

RECURSIVE BitLenFrom(_, _)
BitLenFrom(a, i) ==
    IF i = 0 THEN 0
    ELSE IF a[i] # 0 THEN 16 * (i - 1) + SmallBitLen(a[i])
    ELSE BitLenFrom(a, i - 1)

\* the number of significant bits of a
BitLen(a) == BitLenFrom(a, 5)

\* a rounded to 53 significant bits, ties to even; sticky says that the
\* exact value lies strictly above a, by less than one unit
Round(a, sticky) ==
    LET d == BitLen(a) - 53
    IN IF d <= 0 THEN a
       ELSE LET hi == BigShr(a, d)
                kept == BigShl(hi, d)
                lost == BigSub(a, kept)
                half == Pow2(d - 1)
                up == \/ BigLess(half, lost)
                      \/ lost = half /\ (sticky \/ hi[1] % 2 = 1)
            IN IF up THEN BigAdd(kept, Pow2(d)) ELSE kept

B64(neg, mag) == [neg |-> neg /\ mag # BigZero, mag |-> mag]

FZero == B64(FALSE, BigZero)

\* the binary64 value of the decimal n/10: the float Python holds for it
FromTenths(n) ==
    LET d == BigDivMod(BigMulSmall(Pow2(58), Abs(n)), 10)
    IN B64(n < 0, BigShr(Round(d.q, d.r # 0), 2))

\* -u
FNeg(u) == B64(~u.neg, u.mag)

\* u + v
FAdd(u, v) ==
    IF u.neg = v.neg THEN B64(u.neg, Round(BigAdd(u.mag, v.mag), FALSE))
    ELSE IF BigLess(u.mag, v.mag) THEN B64(v.neg, Round(BigSub(v.mag, u.mag), FALSE))
    ELSE B64(u.neg, Round(BigSub(u.mag, v.mag), FALSE))

\* u - v
FSub(u, v) == FAdd(u, FNeg(v))

\* u * m, for an integer 0 <= m < 2^15
FMulSmall(u, m) == B64(u.neg, Round(BigMulSmall(u.mag, m), FALSE))

\* u / m, for an integer 0 < m < 2^15 and a quotient that is 0 or at least 2^-4
FDivSmall(u, m) ==
    LET d == BigDivMod(BigShl(u.mag, 2), m)
    IN B64(u.neg, BigShr(Round(d.q, d.r # 0), 2))

\* np.maximum(u, 0)
FMax0(u) == IF u.neg THEN FZero ELSE u

\* the float a leg holds, as binary64
AsB64(x) == FromTenths(x.n)

---------------------------------------------------------------------------
(* Option.payoff, Stock.payoff and plot_strategy. *)

\* Option_payoff with the call and put branches swapped
Option_payoffSwapped(leg, S) ==
    LET K == AsB64(leg.strike)
        intrinsic == IF leg.option_type = S_("call")
                     THEN FMax0(FSub(K, S))
                     ELSE FMax0(FSub(S, K))
    IN IF leg.position = S_("long")
       THEN FSub(intrinsic, AsB64(leg.premium))
       ELSE FAdd(FNeg(intrinsic), AsB64(leg.premium))

\* Option.payoff at one price S
Option_payoff(leg, S) ==
    LET K == AsB64(leg.strike)
        intrinsic == IF leg.option_type = S_("call")
                     THEN FMax0(FSub(S, K))
                     ELSE FMax0(FSub(K, S))
    IN IF leg.position = S_("long")
       THEN FSub(intrinsic, AsB64(leg.premium))
       ELSE FAdd(FNeg(intrinsic), AsB64(leg.premium))

\* Stock_payoff that returns S - entry_price whatever the position
Stock_payoffAlwaysBuy(leg, S) == FSub(S, AsB64(leg.entry_price))

\* Stock.payoff at one price S
Stock_payoff(leg, S) ==
    IF leg.position = S_("buy")
    THEN FSub(S, AsB64(leg.entry_price))
    ELSE FSub(AsB64(leg.entry_price), S)

IsOption(leg) == "strike" \in DOMAIN leg

\* leg.payoff(S)
Payoff(leg, S) == IF IsOption(leg) THEN Option_payoff(leg, S) ELSE Stock_payoff(leg, S)

\* np.linspace(start, stop, num)[i]: step = (stop - start) / (num - 1),
\* y = arange(0, num) * step + start, y[-1] = stop
linspace_at(start, stop, num, i) ==
    IF i = num - 1 THEN stop
    ELSE LET step == FDivSmall(FSub(stop, start), num - 1)
         IN FAdd(FMulSmall(step, i), start)

\* Accumulate as `net = payoff`
AccumulateAssign(net, payoff) == payoff

\* net += payoff
Accumulate(net, payoff) == FAdd(net, payoff)

\* net after the loop `for leg in options + stocks` has run from place k on
RECURSIVE LoopFrom(_, _, _, _)
LoopFrom(legs, s, k, net) ==
    IF k > Len(legs) THEN net
    ELSE LoopFrom(legs, s, k + 1, Accumulate(net, Payoff(legs[k], s)))

\* np.zeros_like(S), then the loop over the legs, at one grid point
NetAt(legs, s) == LoopFrom(legs, s, 1, FZero)

\* the grid indexes at which the model follows S and net
GridSample == {0, 3, 105, 1000}

\* plot_strategy(options, stocks, s_min, s_max): (S, net) at GridSample
plot_strategy(opts, stks, s_min, s_max) ==
    LET S(i) == linspace_at(FromTenths(s_min), FromTenths(s_max), Resolution, i)
    IN [op |-> "plot_strategy", s_min |-> s_min, s_max |-> s_max,
        S |-> [i \in GridSample |-> S(i)],
        net |-> [i \in GridSample |-> NetAt(opts \o stks, S(i))]]

---------------------------------------------------------------------------
(* The inputs of the model. *)

\* what the selectboxes and number_inputs of the Add forms can supply
Positions == {"long", "short"}
OptionTypes == {"call", "put"}
StockPositions == {"buy", "sell"}
Strikes == {1005}
Premiums == {25}
EntryPrices == {1005}

Row(type, position, option_type, strike_or_entry, premium) ==
    [type |-> type, position |-> position, option_type |-> option_type,
     strike_or_entry |-> strike_or_entry, premium |-> premium]

\* no file of that name
MissingFile == [exists |-> FALSE, rows |-> <<>>]

\* type,position,option_type,strike_or_entry,premium
\* bond,long,,100.5,0
BondFile ==
    [exists |-> TRUE,
     rows |-> <<Row(Word("bond"), Word("long"), Empty, Dec(FALSE, 100, 5), IntTxt(FALSE, 0))>>]

\* option,long,call,100.5,2.5
\* option,short,put,abc,2.5
BadStrikeFile ==
    [exists |-> TRUE,
     rows |-> <<Row(Word("option"), Word("long"), Word("call"), Dec(FALSE, 100, 5), Dec(FALSE, 2, 5)),
                Row(Word("option"), Word("short"), Word("put"), Word("abc"), Dec(FALSE, 2, 5))>>]

\* option,long,call,-5.0,2.5
NegativeFile ==
    [exists |-> TRUE,
     rows |-> <<Row(Word("option"), Word("long"), Word("call"), Dec(TRUE, 5, 0), Dec(FALSE, 2, 5))>>]

\* stock,sell,,-1.5,0
NegativeStockFile ==
    [exists |-> TRUE,
     rows |-> <<Row(Word("stock"), Word("sell"), Empty, Dec(TRUE, 1, 5), IntTxt(FALSE, 0))>>]

\* the files a user can point strategy_file at, besides the ones Save wrote
SampleFiles == {MissingFile, BondFile, BadStrikeFile, NegativeFile, NegativeStockFile}

\* the session specification does not follow what is plotted
NoPlot == [op |-> "none"]
NoPay == [op |-> "none"]

---------------------------------------------------------------------------
(* The handlers. *)

\* the list `data` the Save handler builds
SaveData(opts, stks) ==
    [i \in 1..Len(opts) |->
        Row(S_("option"), opts[i].position, opts[i].option_type, opts[i].strike, opts[i].premium)]
    \o
    [i \in 1..Len(stks) |->
        Row(S_("stock"), stks[i].position, Str(Empty), stks[i].entry_price, Int_(0))]

\* the file the Save handler writes
SaveHandler(opts, stks) == to_csv(DataFrame(SaveData(opts, stks)))

\* the for loop of the Load handler from row i on: [err, options, stocks]
RECURSIVE LoadRows(_, _, _, _)
LoadRows(df, i, opts, stks) ==
    IF i > Len(df) THEN [err |-> "none", options |-> opts, stocks |-> stks]
    ELSE LET row == df[i]
         IN IF row["type"] = S_("option")
            THEN LET o == Option(row["position"], row["option_type"],
                                 row["strike_or_entry"], row["premium"])
                 IN IF o.ok THEN LoadRows(df, i + 1, Append(opts, o.leg), stks)
                    ELSE [err |-> "ValueError", options |-> opts, stocks |-> stks]
            ELSE LET s == Stock(row["position"], row["strike_or_entry"])
                 IN IF s.ok THEN LoadRows(df, i + 1, opts, Append(stks, s.leg))
                    ELSE [err |-> "ValueError", options |-> opts, stocks |-> stks]

\* the Load handler: [err, options, stocks]
LoadHandler(opts, stks, file) ==
    IF ~file.exists
    THEN [err |-> "FileNotFoundError", options |-> opts, stocks |-> stks]
    ELSE LoadRows(read_csv(file), 1, <<>>, <<>>)

\* del list[i] with a Python index i: [ok, list]; not ok is IndexError
Del(list, i) ==
    LET n == Len(list)
        j == IF i < 0 THEN i + n ELSE i
    IN IF j < 0 \/ j >= n THEN [ok |-> FALSE, list |-> list]
       ELSE [ok |-> TRUE, list |-> [m \in 1..(n - 1) |-> IF m <= j THEN list[m] ELSE list[m + 1]]]

\* SelectboxValues of a selectbox that can also hand back -1
SelectboxValuesWithMinusOne(opts, stks) ==
    {<<i>> : i \in (-1)..(Len(opts) + Len(stks) - 1)}

\* what the "Select to remove" selectbox returns: an index of all_labels,
\* None (written <<>>) when all_labels is empty
SelectboxValues(opts, stks) ==
    IF Len(opts) + Len(stks) = 0 THEN {<<>>}
    ELSE {<<i>> : i \in 0..(Len(opts) + Len(stks) - 1)}

\* RemoveHandler with `del stocks[remove_idx]`: the offset len(options) forgotten
RemoveHandlerNoOffset(opts, stks, remove_idx) ==
    IF remove_idx = <<>>
    THEN [err |-> "TypeError", options |-> opts, stocks |-> stks]
    ELSE LET idx == remove_idx[1]
         IN IF idx < Len(opts)
            THEN LET d == Del(opts, idx)
                 IN [err |-> IF d.ok THEN "none" ELSE "IndexError",
                     options |-> d.list, stocks |-> stks]
            ELSE LET d == Del(stks, idx)
                 IN [err |-> IF d.ok THEN "none" ELSE "IndexError",
                     options |-> opts, stocks |-> d.list]

\* the Remove handler: [err, options, stocks]
RemoveHandler(opts, stks, remove_idx) ==
    IF remove_idx = <<>>
    THEN [err |-> "TypeError", options |-> opts, stocks |-> stks]   \* None < int
    ELSE LET idx == remove_idx[1]
         IN IF idx < Len(opts)
            THEN LET d == Del(opts, idx)
                 IN [err |-> IF d.ok THEN "none" ELSE "IndexError",
                     options |-> d.list, stocks |-> stks]
            ELSE LET d == Del(stks, idx - Len(opts))
                 IN [err |-> IF d.ok THEN "none" ELSE "IndexError",
                     options |-> opts, stocks |-> d.list]

---------------------------------------------------------------------------
(* The session: one action per rerun of the script. *)

Init ==
    /\ options = <<>>
    /\ stocks = <<>>
    /\ disk = MissingFile
    /\ lastOp = "init"
    /\ lastIdx = <<>>
    /\ err = "none"
    /\ plot = NoPlot
    /\ pay = NoPay

\* the user types another file name into the "File name (CSV)" input
SetStrategyFile ==
    \E f \in SampleFiles :
        /\ disk' = f
        /\ lastOp' = "file"
        /\ lastIdx' = <<>>
        /\ err' = "none"
        /\ UNCHANGED <<options, stocks, plot, pay>>

Save ==
    /\ disk' = SaveHandler(options, stocks)
    /\ lastOp' = "save"
    /\ lastIdx' = <<>>
    /\ err' = "none"
    /\ UNCHANGED <<options, stocks, plot, pay>>

Load ==
    LET r == LoadHandler(options, stocks, disk)
    IN /\ options' = r.options
       /\ stocks' = r.stocks
       /\ err' = r.err
       /\ lastOp' = "load"
       /\ lastIdx' = <<>>
       /\ UNCHANGED <<disk, plot, pay>>

AddOption ==
    \E pos \in Positions, typ \in OptionTypes, k \in Strikes, p \in Premiums :
        /\ Len(options) + Len(stocks) < MaxLegs
        /\ options' = Append(options, Option(S_(pos), S_(typ), Float(k), Float(p)).leg)
        /\ lastOp' = "add_option"
        /\ lastIdx' = <<>>
        /\ err' = "none"
        /\ UNCHANGED <<stocks, disk, plot, pay>>

AddStock ==
    \E pos \in StockPositions, ep \in EntryPrices :
        /\ Len(options) + Len(stocks) < MaxLegs
        /\ stocks' = Append(stocks, Stock(S_(pos), Float(ep)).leg)
        /\ lastOp' = "add_stock"
        /\ lastIdx' = <<>>
        /\ err' = "none"
        /\ UNCHANGED <<options, disk, plot, pay>>

Remove ==
    \E remove_idx \in SelectboxValues(options, stocks) :
        LET r == RemoveHandler(options, stocks, remove_idx)
        IN /\ options' = r.options
           /\ stocks' = r.stocks
           /\ err' = r.err
           /\ lastOp' = "remove"
           /\ lastIdx' = remove_idx
           /\ UNCHANGED <<disk, plot, pay>>

Next ==
    \/ SetStrategyFile
    \/ Save
    \/ Load
    \/ AddOption
    \/ AddStock
    \/ Remove

Spec == Init /\ [][Next]_vars

---------------------------------------------------------------------------
(* The payoff functions on their own: one call of leg.payoff per step. *)

PayoffStrikes == {1, 1000, 1005}
PayoffPremiums == {0, 3, 50}
PayoffEntryPrices == {0, 1, 1005}

PayoffOptions ==
    {Option(S_(pos), S_(typ), Float(k), Float(p)).leg :
        pos \in Positions, typ \in OptionTypes, k \in PayoffStrikes, p \in PayoffPremiums}

PayoffStocks ==
    {Stock(S_(pos), Float(ep)).leg : pos \in StockPositions, ep \in PayoffEntryPrices}

\* (s_min, s_max) of the "Price Min" and "Price Max" inputs, in tenths:
\* the default 0.0 to 200.0, and 0.0 to 1000.0
DefaultRange == <<0, 2000>>
PriceRanges == {DefaultRange, <<0, 10000>>}

\* the grid indexes whose price is passed to payoff
PayoffIndexes == {i \in 0..(Resolution - 1) : i % 15 = 0 \/ i = Resolution - 1}

\* a call about to be made: the leg and the price S = linspace(...)[i]
PayoffArgs(legs) ==
    {[op |-> "call", leg |-> leg, r |-> r, i |-> i,
      S |-> linspace_at(FromTenths(r[1]), FromTenths(r[2]), Resolution, i)] :
        leg \in legs, r \in PriceRanges, i \in PayoffIndexes}

InitPayoff ==
    /\ options = <<>>
    /\ stocks = <<>>
    /\ disk = MissingFile
    /\ lastOp = "init"
    /\ lastIdx = <<>>
    /\ err = "none"
    /\ plot = NoPlot
    /\ pay \in PayoffArgs(PayoffOptions \cup PayoffStocks)

OptionPayoffCall ==
    /\ pay.op = "call"
    /\ IsOption(pay.leg)
    /\ pay' = [op |-> "payoff", leg |-> pay.leg, r |-> pay.r, i |-> pay.i, S |-> pay.S,
               result |-> Option_payoff(pay.leg, pay.S)]
    /\ UNCHANGED <<options, stocks, disk, lastOp, lastIdx, err, plot>>

StockPayoffCall ==
    /\ pay.op = "call"
    /\ ~IsOption(pay.leg)
    /\ pay' = [op |-> "payoff", leg |-> pay.leg, r |-> pay.r, i |-> pay.i, S |-> pay.S,
               result |-> Stock_payoff(pay.leg, pay.S)]
    /\ UNCHANGED <<options, stocks, disk, lastOp, lastIdx, err, plot>>

NextPayoff ==
    \/ OptionPayoffCall
    \/ StockPayoffCall

SpecPayoff == InitPayoff /\ [][NextPayoff]_vars

---------------------------------------------------------------------------
(* The reruns that add a leg or change the price range, with the curve    *)
(* plot_strategy returns at the end of the rerun.                          *)

PlotOptions ==
    {Option(S_("long"), S_("call"), Float(1000), Float(50)).leg,
     Option(S_("short"), S_("call"), Float(1100), Float(20)).leg}

PlotStocks ==
    {Stock(S_("buy"), Float(1)).leg,
     Stock(S_("buy"), Float(2)).leg,
     Stock(S_("sell"), Float(3)).leg}

InitPlot ==
    /\ options = <<>>
    /\ stocks = <<>>
    /\ disk = MissingFile
    /\ lastOp = "init"
    /\ lastIdx = <<>>
    /\ err = "none"
    /\ plot = plot_strategy(<<>>, <<>>, DefaultRange[1], DefaultRange[2])
    /\ pay = NoPay

PlotAddOption ==
    \E leg \in PlotOptions :
        /\ Len(options) + Len(stocks) < MaxPlotLegs
        /\ options' = Append(options, leg)
        /\ plot' = plot_strategy(options', stocks, plot.s_min, plot.s_max)
        /\ lastOp' = "add_option"
        /\ UNCHANGED <<stocks, disk, lastIdx, err, pay>>

PlotAddStock ==
    \E leg \in PlotStocks :
        /\ Len(options) + Len(stocks) < MaxPlotLegs
        /\ stocks' = Append(stocks, leg)
        /\ plot' = plot_strategy(options, stocks', plot.s_min, plot.s_max)
        /\ lastOp' = "add_stock"
        /\ UNCHANGED <<options, disk, lastIdx, err, pay>>

SetPriceRange ==
    \E r \in PriceRanges :
        /\ plot' = plot_strategy(options, stocks, r[1], r[2])
        /\ lastOp' = "range"
        /\ UNCHANGED <<options, stocks, disk, lastIdx, err, pay>>

NextPlot ==
    \/ PlotAddOption
    \/ PlotAddStock
    \/ SetPriceRange

SpecPlot == InitPlot /\ [][NextPlot]_vars

---------------------------------------------------------------------------
(* The claims about the session. *)

TotalLegs == Len(options) + Len(stocks)

IsNonNegative(x) == x.t = "float" /\ x.n >= 0

\* the data model: directions and kinds in their enumerations, numeric
\* attributes finite and non-negative
OptionWellFormed(o) ==
    /\ o.position \in {S_(p) : p \in Positions}
    /\ o.option_type \in {S_(t) : t \in OptionTypes}
    /\ IsNonNegative(o.strike)
    /\ IsNonNegative(o.premium)

StockWellFormed(s) ==
    /\ s.position \in {S_(p) : p \in StockPositions}
    /\ IsNonNegative(s.entry_price)

WellFormed(opts, stks) ==
    /\ \A i \in DOMAIN opts : OptionWellFormed(opts[i])
    /\ \A i \in DOMAIN stks : StockWellFormed(stks[i])

\* C1: a Load that reports a failure leaves options and stocks as they were
C1_FailedLoadLeavesPortfolio ==
    [][(lastOp' = "load" /\ err' # "none") => (options' = options /\ stocks' = stocks)]_vars

RecognizedTypes == {Word("option"), Word("stock")}

\* C2: a Load of a file holding a row whose type is neither "option" nor
\* "stock" fails
C2_UnrecognizedTypeFails ==
    (/\ lastOp = "load"
     /\ disk.exists
     /\ \E i \in DOMAIN disk.rows : disk.rows[i]["type"] \notin RecognizedTypes)
    => err # "none"

IndexInRange(remove_idx, total) ==
    remove_idx # <<>> /\ remove_idx[1] >= 0 /\ remove_idx[1] < total

C5_LegInvariants ==
    /\ \A i \in DOMAIN options :
        IsNonNegative(options[i].strike) /\ IsNonNegative(options[i].premium)
    /\ \A i \in DOMAIN stocks : IsNonNegative(stocks[i].entry_price)

\* the sequence s without its element at the 1-based place i
RemoveAt(s, i) == SubSeq(s, 1, i - 1) \o SubSeq(s, i + 1, Len(s))

\* C10: a Remove at a valid index i takes out exactly the leg at place i of
\* options + stocks: the option at i when i < len(options), else the stock
\* at i - len(options); the other list is untouched and nothing is raised
C10_RemoveExactlyOne ==
    [][(lastOp' = "remove" /\ IndexInRange(lastIdx', TotalLegs)) =>
        LET i == lastIdx'[1]
        IN /\ err' = "none"
           /\ options' \o stocks' = RemoveAt(options \o stocks, i + 1)
           /\ Len(options') + Len(stocks') = TotalLegs - 1
           /\ IF i < Len(options)
              THEN options' = RemoveAt(options, i + 1) /\ stocks' = stocks
              ELSE stocks' = RemoveAt(stocks, i - Len(options) + 1) /\ options' = options]_vars

\* a stock was removed from behind an option that is still held
C10_Witness ==
    /\ lastOp = "remove"
    /\ err = "none"
    /\ lastIdx # <<>>
    /\ Len(options) >= 1
    /\ lastIdx[1] >= Len(options)

---------------------------------------------------------------------------
(* The claims about the payoff functions and the curve. *)

Max0(n) == IF n < 0 THEN 0 ELSE n

\* the payoff of the claim, in binary64
ReferencePayoff(leg, S) ==
    LET K == FromTenths(leg.strike.n)
        P == FromTenths(leg.premium.n)
        long == leg.position = S_("long")
        call == leg.option_type = S_("call")
    IN CASE long /\ call -> FSub(FMax0(FSub(S, K)), P)
         [] long /\ ~call -> FSub(FMax0(FSub(K, S)), P)
         [] ~long /\ call -> FSub(P, FMax0(FSub(S, K)))
         [] ~long /\ ~call -> FSub(P, FMax0(FSub(K, S)))

\* the payoff of the claim in tenths, computed on the integers
ReferenceTenths(leg, S10) ==
    LET K == leg.strike.n
        P == leg.premium.n
        long == leg.position = S_("long")
        call == leg.option_type = S_("call")
        intrinsic == IF call THEN Max0(S10 - K) ELSE Max0(K - S10)
    IN IF long THEN intrinsic - P ELSE P - intrinsic

\* halves are binary64 values, and so are their sums and differences here
IsHalves(n) == n % 5 = 0

LongCall100_5 == Option(S_("long"), S_("call"), Float(1000), Float(50)).leg

\* C8: Option.payoff is max(S-K,0) - P for a long call, max(K-S,0) - P for
\* a long put, P - max(S-K,0) for a short call and P - max(K-S,0) for a
\* short put: as binary64 operations at every price, and as the exact
\* number where S, K and P are multiples of 0.5; the long call K=100, P=5
\* pays -5 at S=90 and 15 at S=120
C8_OptionPayoffFormula ==
    (pay.op = "payoff" /\ IsOption(pay.leg)) =>
        /\ pay.result = ReferencePayoff(pay.leg, pay.S)
        /\ (/\ pay.r = <<0, 10000>>
            /\ IsHalves(pay.leg.strike.n)
            /\ IsHalves(pay.leg.premium.n))
           => pay.result = FromTenths(ReferenceTenths(pay.leg, 10 * pay.i))
        /\ (pay.leg = LongCall100_5 /\ pay.S = FromTenths(900))
           => pay.result = FromTenths(-50)
        /\ (pay.leg = LongCall100_5 /\ pay.S = FromTenths(1200))
           => pay.result = FromTenths(150)

\* the long call of the claim has been evaluated at S = 120
C8_Witness ==
    /\ pay.op = "payoff"
    /\ pay.leg = LongCall100_5
    /\ pay.S = FromTenths(1200)
    /\ pay.result = FromTenths(150)

\* the leg with the other direction
Opposite(leg) ==
    IF IsOption(leg)
    THEN Option(IF leg.position = S_("long") THEN S_("short") ELSE S_("long"),
                leg.option_type, leg.strike, leg.premium).leg
    ELSE Stock(IF leg.position = S_("buy") THEN S_("sell") ELSE S_("buy"),
               leg.entry_price).leg

\* C9: at every price the payoff of a leg and the payoff of the leg with
\* the other direction sum to 0
C9_OppositesCancel ==
    pay.op = "payoff" =>
        FAdd(pay.result, Payoff(Opposite(pay.leg), pay.S)) = FZero

\* a sell stock leg has been evaluated where its payoff is not 0
C9_Witness ==
    /\ pay.op = "payoff"
    /\ ~IsOption(pay.leg)
    /\ pay.leg.position = S_("sell")
    /\ pay.result # FZero

\* the list plot_strategy loops over
Legs == options \o stocks

\* the payoffs of the legs at grid index i, in the order of the list
RECURSIVE PayoffsFrom(_, _)
PayoffsFrom(i, k) ==
    IF k > Len(Legs) THEN <<>>
    ELSE <<Payoff(Legs[k], plot.S[i])>> \o PayoffsFrom(i, k + 1)

PayoffsAt(i) == PayoffsFrom(i, 1)

\* net of the loop run over the list permuted by p, of which the payoffs
\* are the payoffs of the list permuted by p
RECURSIVE PermutedNetFrom(_, _, _, _)
PermutedNetFrom(payoffs, p, k, net) ==
    IF k > Len(payoffs) THEN net
    ELSE PermutedNetFrom(payoffs, p, k + 1, Accumulate(net, payoffs[p[k]]))

PermutedNet(payoffs, p) == PermutedNetFrom(payoffs, p, 1, FZero)

\* C7, as claimed: the net curve of every permutation of the leg list is
\* identical to the net curve of the list at every grid point
C7_OrderInvariant ==
    plot.op = "plot_strategy" =>
        \A i \in GridSample :
            LET payoffs == PayoffsAt(i)
            IN \A p \in Permutations(DOMAIN Legs) :
                PermutedNet(payoffs, p) = plot.net[i]

\* |u - v|, exact, in units of 2^-56
Distance(u, v) ==
    IF u.neg # v.neg THEN BigAdd(u.mag, v.mag)
    ELSE IF BigLess(u.mag, v.mag) THEN BigSub(v.mag, u.mag)
    ELSE BigSub(u.mag, v.mag)

\* |payoffs[1]| + ... + |payoffs[n]|, exact, in units of 2^-56
RECURSIVE SumAbsFrom(_, _)
SumAbsFrom(payoffs, k) ==
    IF k > Len(payoffs) THEN BigZero
    ELSE BigAdd(payoffs[k].mag, SumAbsFrom(payoffs, k + 1))

\* C7, amended: the net curve of every permutation of the leg list agrees
\* with the net curve of the list up to rounding: at every grid point the
\* two differ by at most n * 2^-52 * (|payoff 1| + ... + |payoff n|) for n
\* legs, and they are identical for one or two legs
C7_OrderInvariantUpToRounding ==
    plot.op = "plot_strategy" =>
        \A i \in GridSample :
            LET payoffs == PayoffsAt(i)
                bound == BigShr(BigMulSmall(SumAbsFrom(payoffs, 1), Len(Legs)), 52)
            IN \A p \in Permutations(DOMAIN Legs) :
                LET net == PermutedNet(payoffs, p)
                IN /\ ~BigLess(bound, Distance(net, plot.net[i]))
                   /\ Len(Legs) <= 2 => net = plot.net[i]

\* a curve has been plotted of which a permutation has another net
C7_Witness ==
    /\ plot.op = "plot_strategy"
    /\ Len(Legs) = 3
    /\ \E i \in GridSample :
        \E p \in Permutations(DOMAIN Legs) :
            PermutedNet(PayoffsAt(i), p) # plot.net[i]

====
